---- MODULE Spec2Model ----
(***************************************************************************)
(* A model of the retrieval core of the VideoQnA repository:               *)
(*   - VectorStore.chunk_text       (src/src/vector_store.py)              *)
(*   - VectorStore.add_transcript / remove_video / list_videos /           *)
(*     get_collection_stats / clear_database                               *)
(*   - TranscriptExtractor.extract_and_save_transcript                     *)
(*   - VideoQASystem.add_video / remove_video / clear_knowledge_base       *)
(*   - the shared qa_system instance of the Flask application (app.py)     *)
(*                                                                         *)
(* Three specifications share the definitions:                             *)
(*   SpecChunk  chunk_text run as a loop, one action per iteration, on     *)
(*              inputs drawn from a bounded family of texts;               *)
(*   Spec       the store, one action per public operation, with the       *)
(*              outcomes (success or exception) of the collaborators       *)
(*              chosen nondeterministically;                               *)
(*   SpecConc   one request handler running add_video stepwise while       *)
(*              another handler reads the shared instance.                 *)
(*                                                                         *)
(* A text is a sequence of one-character strings, positions are Python's   *)
(* (0-based) and slices follow Python's slice rules.                       *)
(***************************************************************************)
EXTENDS Integers, Sequences, FiniteSets, TLC

(***************************************************************************)
(* Program constants.                                                      *)
(***************************************************************************)
\* Config.CHUNK_SIZE default
CHUNK_SIZE == 1000
\* Config.CHUNK_OVERLAP default
CHUNK_OVERLAP == 200
\* range(max(0, end - 100), end): how far back a sentence boundary is sought
BOUNDARY_RANGE == 100

\* config.py line 33: TOP_K_RESULTS
TOP_K_RESULTS == 5

(***************************************************************************)
(* Bounds of the model.                                                    *)
(***************************************************************************)
\* iterations of the chunk_text loop that are followed (the loop may not end)
MaxIter == 6

None == "None"

(***************************************************************************)
(* Python strings.                                                         *)
(***************************************************************************)
Min2(a, b) == IF a < b THEN a ELSE b

Max2(a, b) == IF a > b THEN a ELSE b

\* a slice index as Python normalises it: negative counts from the end
SliceIndex(n, x) == IF x < 0 THEN Max2(0, n + x) ELSE Min2(x, n)

\* s[a:b]
PySlice(s, a, b) ==
  LET lo == SliceIndex(Len(s), a)
      hi == SliceIndex(Len(s), b)
  IN  IF lo < hi THEN SubSeq(s, lo + 1, hi) ELSE << >>

\* the characters str.strip() removes (those of the model's alphabet)
Whitespace == {" ", "\n", "\t"}

\* the 1-based positions of s holding a character strip() keeps
Kept(s) == { k \in 1..Len(s) : s[k] \notin Whitespace }

\* the first kept position of s (s holds one)
FirstKept(s) ==
  CHOOSE i \in 1..Len(s) :
    s[i] \notin Whitespace /\ \A k \in 1..(i - 1) : s[k] \in Whitespace

\* the last kept position of s (s holds one)
LastKept(s) ==
  CHOOSE j \in 1..Len(s) :
    s[j] \notin Whitespace /\ \A k \in (j + 1)..Len(s) : s[k] \in Whitespace

\* a mutant of Strip: nothing is trimmed
StripNothing(s) == s

\* s.strip()
Strip(s) == IF Kept(s) = {} THEN << >> ELSE SubSeq(s, FirstKept(s), LastKept(s))

(***************************************************************************)
(* VectorStore.chunk_text                                                  *)
(***************************************************************************)
\* sentence_endings = ['. ', '! ', '? ', '\n\n']
SentenceEndings == { <<".", " ">>, <<"!", " ">>, <<"?", " ">>, <<"\n", "\n">> }

\* any(text[i:i+2] == ending for ending in sentence_endings)
IsEndingAt(text, i) == PySlice(text, i, i + 2) \in SentenceEndings

\* the largest element of a non-empty set of integers
MaxOf(S) == CHOOSE x \in S : \A y \in S : y <= x

\* a mutant of BestBreak: the first hit of the range decides
BestBreakFirst(text, lo, end) ==
  LET hits == { i \in lo..(end - 1) : IsEndingAt(text, i) }
  IN  IF hits = {} THEN end ELSE (CHOOSE i \in hits : \A j \in hits : i <= j) + 2

\* lines 57-61: best_break after the for loop over range(lo, end); every hit
\* overwrites best_break, so the hit at the largest position decides
BestBreak(text, lo, end) ==
  LET hits == { i \in lo..(end - 1) : IsEndingAt(text, i) }
  IN  IF hits = {} THEN end ELSE MaxOf(hits) + 2

\* the value of end after lines 51-63
WindowEnd(text, chunk_size, start) ==
  LET end == start + chunk_size
  IN  IF end < Len(text)
      THEN BestBreak(text, Max2(0, end - BOUNDARY_RANGE), end)
      ELSE end

\* chunk = text[start:end].strip()
ChunkOf(text, start, end) == Strip(PySlice(text, start, end))

\* a mutant of AppendChunk: the chunk is appended even when it is empty
AppendAlways(chunks, chunk) == Append(chunks, chunk)

\* if chunk: chunks.append(chunk)
AppendChunk(chunks, chunk) == IF chunk # << >> THEN Append(chunks, chunk) ELSE chunks

\* a mutant of NextStart: the overlap is added
NextStartPlus(end, overlap) == end + overlap

\* start = end - overlap
NextStart(end, overlap) == end - overlap

Diverges == "Diverges"

\* a mutant of ShortResult: the short text is stripped like a chunk of the loop
ShortResultStripped(text) == << Strip(text) >>

\* lines 44-45: return [text]
ShortResult(text) == << text >>

RECURSIVE ChunkLoop(_, _, _, _, _, _)
\* the while loop of lines 50-71, entered with start < len(text); fuel bounds
\* the iterations followed, and a loop that outlives it is reported as Diverges
ChunkLoop(text, chunk_size, overlap, start, chunks, fuel) ==
  LET end == WindowEnd(text, chunk_size, start)
      appended == AppendChunk(chunks, ChunkOf(text, start, end))
      next == NextStart(end, overlap)
  IN  IF next >= Len(text) THEN appended
      ELSE IF fuel <= 1 THEN Diverges
      ELSE ChunkLoop(text, chunk_size, overlap, next, appended, fuel - 1)

\* chunk_text(text, chunk_size, overlap) as a function of its arguments
ChunkText(text, chunk_size, overlap) ==
  IF Len(text) <= chunk_size THEN ShortResult(text)
  ELSE ChunkLoop(text, chunk_size, overlap, 0, << >>, MaxIter)

(***************************************************************************)
(* VectorStore._find_segments_for_chunk (lines 142-152).                   *)
(***************************************************************************)
\* str.lower() on one character of the alphabet used here
LowerChar(c) == CASE c = "A" -> "a" [] c = "B" -> "b" [] OTHER -> c

\* a mutant of Lower: the case is kept
LowerNothing(s) == s

\* str.lower()
Lower(s) == [ k \in 1..Len(s) |-> LowerChar(s[k]) ]

\* Python's `a in b' on strings: a occurs in b as a contiguous run
IsSubstring(a, b) == \E i \in 0..(Len(b) - Len(a)) : SubSeq(b, i + 1, i + Len(a)) = a

\* lines 149-150: one pass of the for loop, over segment
SegmentStep(chunk_lower, segment, relevant_segments) ==
  IF IsSubstring(Lower(segment.text), chunk_lower)
  THEN Append(relevant_segments, segment)
  ELSE relevant_segments

RECURSIVE SegmentLoop(_, _, _, _)
\* the for loop of lines 148-150 from the segment after the first i
SegmentLoop(chunk_lower, segments, i, relevant_segments) ==
  IF i >= Len(segments) THEN relevant_segments
  ELSE SegmentLoop(chunk_lower, segments, i + 1,
                   SegmentStep(chunk_lower, segments[i + 1], relevant_segments))

\* _find_segments_for_chunk(chunk_text, segments)
FindSegmentsForChunk(chunk_text, segments) == SegmentLoop(Lower(chunk_text), segments, 0, << >>)

(***************************************************************************)
(* Texts the specifications draw their inputs from.                        *)
(***************************************************************************)
\* a text of n characters: `lead' blanks, then letters with a two-character
\* sentence ending `ending' starting at each (0-based) position of marks,
\* then `tail' blanks
MakeText(n, lead, tail, marks, ending) ==
  [ k \in 1..n |->
      LET i == k - 1
      IN  IF i < lead \/ i >= n - tail THEN " "
          ELSE IF i \in marks THEN ending[1]
          ELSE IF (i - 1) \in marks THEN ending[2]
          ELSE "a" ]

RECURSIVE TextsUpTo(_)
\* every text of at most n characters over the alphabet { a . blank }
TextsUpTo(n) ==
  IF n = 0 THEN { << >> }
  ELSE LET shorter == TextsUpTo(n - 1)
       IN  shorter \cup { Append(t, c) : t \in { s \in shorter : Len(s) = n - 1 },
                                           c \in {"a", ".", " "} }

\* subsets of S with at most two elements
UpToTwo(S) == { {} } \cup { {x, y} : x, y \in S }

\* longest text of the exhaustive family
MaxLen == 5

\* small configurations (chunk_size <= BOUNDARY_RANGE): every short text
SmallInputs ==
  { [text |-> t, chunk_size |-> cs, overlap |-> ov] :
      t \in TextsUpTo(MaxLen), cs \in {2, 3, 4}, ov \in {0, 1, 3} } 

\* a configuration with chunk_size > BOUNDARY_RANGE and overlaps below and
\* above chunk_size - BOUNDARY_RANGE
MidInputs ==
  { [text |-> MakeText(n, 0, tl, m, e), chunk_size |-> 120, overlap |-> ov] :
      n \in {121, 260}, tl \in {0, 150}, m \in UpToTwo({20, 60, 119, 200}),
      e \in { <<".", " ">>, <<"\n", "\n">> }, ov \in {0, 15, 30, 119} }

\* the default configuration
DefaultInputs ==
  { [text |-> MakeText(n, ld, tl, m, e), chunk_size |-> CHUNK_SIZE,
     overlap |-> CHUNK_OVERLAP] :
      n \in {1000, 1001, 1300, 2500}, ld \in {0, 1}, tl \in {0, 501},
      m \in UpToTwo({899, 999, 1700}), e \in { <<"?", " ">> } }

\* chunk_text is specified for 0 <= overlap < chunk_size
ChunkInputs ==
  { inp \in SmallInputs \cup MidInputs \cup DefaultInputs :
      0 <= inp.overlap /\ inp.overlap < inp.chunk_size }


RECURSIVE CaseTexts(_)
\* every text of at most n characters over the alphabet { a A b }
CaseTexts(n) ==
  IF n = 0 THEN { << >> }
  ELSE LET shorter == CaseTexts(n - 1)
       IN  shorter \cup { Append(t, c) : t \in { x \in shorter : Len(x) = n - 1 },
                                           c \in {"a", "A", "b"} }

MaxChunkLen == 3

\* the texts of the segments tried
SegTexts == { << >>, <<"a">>, <<"A">>, <<"a", "A">>, <<"A", "b">>, <<"b", "a">> }

MaxSegments == 2

\* the segment lists tried: the k-th segment starts at second k and lasts one
SegmentLists ==
  { [ k \in 1..Len(texts) |-> [text |-> texts[k], start |-> k, duration |-> 1] ] :
      texts \in UNION { [1..m -> SegTexts] : m \in 0..MaxSegments } }

(***************************************************************************)
(* The transcript source and the transcript cache.                         *)
(***************************************************************************)
Videos == {"v1", "v2"}

\* the transcript texts the source may deliver (YouTubeTranscriptApi +
\* TextFormatter): t1 makes three chunks and t3 one under CHUNK_SIZE=120,
\* the others are 2500 characters long, without and with sentence endings
TIDs == {"t1", "t3", "t2500", "t2500s"}

Transcripts ==
  [ tid \in TIDs |->
      CASE tid = "t1" -> MakeText(300, 0, 0, {100, 200}, <<".", " ">>)
        [] tid = "t3" -> MakeText(3, 0, 0, {}, <<".", " ">>)
        [] tid = "t2500" -> MakeText(2500, 0, 0, {}, <<".", " ">>)
        [] tid = "t2500s" -> MakeText(2500, 0, 0, {950, 1700, 2300}, <<".", " ">>) ]

\* the timed segments the source delivers with each text (entry.start,
\* entry.duration, entry.text): under CHUNK_SIZE=120 the first chunk of t1
\* holds the second segment only, its other chunks the first two; no chunk
\* holds a segment of t3
Segments ==
  [ tid \in TIDs |->
      CASE tid = "t1" -> << [text |-> <<"a", ".", " ", "a">>, start |-> 10, duration |-> 4],
                            [text |-> <<"A", "A">>, start |-> 3, duration |-> 2],
                            [text |-> <<"b">>, start |-> 0, duration |-> 1] >>
        [] tid = "t3" -> << [text |-> <<"b">>, start |-> 0, duration |-> 1] >>
        [] OTHER -> << >> ]

\* the settings Config() reads from the environment (config.py lines 28-29)
DefaultConfig == [CHUNK_SIZE |-> CHUNK_SIZE, CHUNK_OVERLAP |-> CHUNK_OVERLAP]

\* CHUNK_SIZE=120 CHUNK_OVERLAP=10 in the environment
SmallConfig == [CHUNK_SIZE |-> 120, CHUNK_OVERLAP |-> 10]

Configs == {DefaultConfig, SmallConfig}

\* the URLs given to add_video: a watch URL of each video, and one no pattern matches
Urls == { [kind |-> "watch", id |-> v] : v \in Videos } \cup { [kind |-> "other", id |-> None] }

\* TranscriptExtractor.extract_video_id
ExtractVideoId(url) == IF url.kind = "watch" THEN url.id ELSE None

\* the dict extract_transcript returns for video_id when the source delivers text tid
TranscriptData(video_id, tid) ==
  [video_id |-> video_id, transcript |-> Transcripts[tid], segments |-> Segments[tid]]

\* TranscriptExtractor.load_transcript: files maps a video to the transcript
\* saved in <video_id>_transcript.json (None: no file)
LoadTranscript(files, video_id) ==
  IF files[video_id] = None THEN None ELSE TranscriptData(video_id, files[video_id])

\* a mutant of UseCached: force_refresh is not looked at
UseCachedAlways(files, video_id, force_refresh) == files[video_id] # None

\* extract_and_save_transcript lines 161-165: the saved transcript is
\* returned, and extract_transcript not called
UseCached(files, video_id, force_refresh) == ~force_refresh /\ files[video_id] # None

(***************************************************************************)
(* The ChromaDB collection: a set of entries with distinct ids.            *)
(***************************************************************************)
\* doc_id = f"{video_id}_{i}"
DocId(video_id, i) == << video_id, "_", i >>

\* the ids of collection.get(where={"video_id": video_id})
CollectionGet(coll, video_id) == { e.id : e \in { x \in coll : x.metadata.video_id = video_id } }

\* a mutant of CollectionDelete: nothing is deleted
DeleteNothing(coll, ids) == coll

\* collection.delete(ids=ids)
CollectionDelete(coll, ids) == { e \in coll : e.id \notin ids }

\* collection.add(...): a record whose id the collection already holds is
\* ignored (ChromaDB logs "Add of existing embedding ID" and keeps the old one)
CollectionAdd(coll, entries) == coll \cup { e \in entries : e.id \notin { x.id : x \in coll } }

\* the outcomes of the collaborators' calls within one operation: the set of
\* the calls that raise when they are reached
RemoveFaults == { {}, {"get"}, {"delete"} }

AddFaults == { r \cup i : r \in RemoveFaults, i \in { {}, {"encode"}, {"add"} } }

ClearFaults == { {}, {"delete_collection"}, {"get_or_create_collection"} }

(***************************************************************************)
(* VectorStore                                                             *)
(***************************************************************************)
\* chunk_text(transcript_text) with the configured defaults (lines 39-42),
\* tabulated over the configurations and the texts the source delivers
ChunkTable ==
  [ cfg \in Configs |->
      [ t \in { Transcripts[k] : k \in TIDs } |->
          ChunkText(t, cfg.CHUNK_SIZE, cfg.CHUNK_OVERLAP) ] ]

ChunkTextOf(cfg, text) == ChunkTable[cfg][text]

\* the chunks add_transcript may build entries from, each with the segments
\* of its transcript
ChunkSegmentPairs ==
  UNION { LET chunks == ChunkTextOf(cfg, Transcripts[tid])
          IN  IF chunks = Diverges THEN {}
              ELSE { << chunks[k], Segments[tid] >> : k \in 1..Len(chunks) } :
          cfg \in Configs, tid \in TIDs }

\* line 97: _find_segments_for_chunk(chunk, segments), tabulated over them
ChunkSegmentsTable ==
  [ pair \in ChunkSegmentPairs |-> FindSegmentsForChunk(pair[1], pair[2]) ]

ChunkSegmentsOf(chunk, segments) == ChunkSegmentsTable[<< chunk, segments >>]

\* min(seg['start'] for seg in chunk_segments)
MinStart(chunk_segments) ==
  LET starts == { chunk_segments[k].start : k \in 1..Len(chunk_segments) }
  IN  CHOOSE x \in starts : \A y \in starts : x <= y

\* a mutant of MaxEnd: the durations are left out
MaxEndOfStarts(chunk_segments) == MaxOf({ chunk_segments[k].start : k \in 1..Len(chunk_segments) })

\* max(seg['start'] + seg['duration'] for seg in chunk_segments)
MaxEnd(chunk_segments) ==
  MaxOf({ chunk_segments[k].start + chunk_segments[k].duration : k \in 1..Len(chunk_segments) })

\* metadata.get('title', 'Unknown') of the transcript of each video
VideoTitles == [ v \in Videos |-> IF v = "v1" THEN "Title v1" ELSE "Title v2" ]

\* lines 97-114: metadata_entry of a chunk stored under chunk_index index; the
\* title, uploader, upload_date, video_url and duration of the video are left out
MetadataAt(video_id, index, chunk, segments) ==
  LET chunk_segments == ChunkSegmentsOf(chunk, segments)
  IN  IF chunk_segments # << >>
      THEN [video_id |-> video_id, chunk_index |-> index,
            video_title |-> VideoTitles[video_id],
            segments_count |-> Len(chunk_segments), text_length |-> Len(chunk),
            start_time |-> MinStart(chunk_segments), end_time |-> MaxEnd(chunk_segments)]
      ELSE [video_id |-> video_id, chunk_index |-> index,
            video_title |-> VideoTitles[video_id],
            segments_count |-> Len(chunk_segments), text_length |-> Len(chunk)]

\* a mutant of MetadataEntry: chunk_index counts from 1
MetadataFromOne(video_id, i, chunk, segments) == MetadataAt(video_id, i + 1, chunk, segments)

\* lines 93-114: metadata_entry of chunk i of enumerate(chunks)
MetadataEntry(video_id, i, chunk, segments) == MetadataAt(video_id, i, chunk, segments)

\* lines 93-118: the records built for enumerate(chunks)
BuildEntries(video_id, chunks, segments) ==
  { [id |-> DocId(video_id, k - 1), document |-> chunks[k],
     metadata |-> MetadataEntry(video_id, k - 1, chunks[k], segments)] : k \in 1..Len(chunks) }

\* VectorStore.remove_video on collection coll (usable: the handle
\* self.collection names a collection that exists); out are the outcomes of
\* the backend calls. error names the call whose exception was swallowed.
RemoveVideo(coll, exists, video_id, faults) ==
  IF ~exists \/ "get" \in faults
  THEN [collection |-> coll, removed |-> 0, error |-> "get"]
  ELSE LET ids == CollectionGet(coll, video_id)
       IN  IF ids = {}
           THEN [collection |-> coll, removed |-> 0, error |-> None]
           ELSE IF "delete" \in faults
           THEN [collection |-> coll, removed |-> 0, error |-> "delete"]
           ELSE [collection |-> CollectionDelete(coll, ids),
                 removed |-> Cardinality(ids), error |-> None]

\* VectorStore.add_transcript: raised names the call whose exception leaves
\* add_transcript (None: it returned chunks_added)
AddTranscript(coll, exists, cfg, transcript_data, faults) ==
  LET video_id == transcript_data.video_id
      r == RemoveVideo(coll, exists, video_id, faults)
      chunks == ChunkTextOf(cfg, transcript_data.transcript)
      entries == BuildEntries(video_id, chunks, transcript_data.segments)
  IN  IF "encode" \in faults
      THEN [collection |-> r.collection, raised |-> "encode", chunks_added |-> 0,
            removed |-> r.removed, remove_error |-> r.error]
      ELSE IF ~exists \/ "add" \in faults
      THEN [collection |-> r.collection, raised |-> "add", chunks_added |-> 0,
            removed |-> r.removed, remove_error |-> r.error]
      ELSE [collection |-> CollectionAdd(r.collection, entries), raised |-> None,
            chunks_added |-> Len(chunks), removed |-> r.removed,
            remove_error |-> r.error]

\* the questions asked
Queries == {"q1", "q2"}

\* the distance ChromaDB computes between the embedding of the query and the
\* embedding stored with a document; equal documents lie equally far
Distance(query, document) ==
  IF query = "q1" THEN Len(document) % 4 ELSE Len(document) % 3

\* the entries of coll nearest to the query
NearestOf(coll, query) ==
  { e \in coll : \A x \in coll : Distance(query, e.document) <= Distance(query, x.document) }

RECURSIVE CollectionQuery(_, _, _)
\* collection.query(query_embeddings, n_results) with n_results >= 1: the
\* lists it may return, nearest first, entries equally far in any order; the
\* collection gives what it holds when it holds less than n_results
CollectionQuery(coll, query, n_results) ==
  IF n_results = 0 \/ coll = {} THEN { << >> }
  ELSE UNION { { << e >> \o rest : rest \in CollectionQuery(coll \ {e}, query, n_results - 1) } :
               e \in NearestOf(coll, query) }

\* a mutant of Similarity: the distance is taken for the similarity
SimilarityIsDistance(distance) == distance

\* line 179: 1 - distance
Similarity(distance) == 1 - distance

\* lines 173-180: formatted_results
FormatResults(query, found) ==
  [ i \in 1..Len(found) |->
      [document |-> found[i].document, metadata |-> found[i].metadata,
       distance |-> Distance(query, found[i].document),
       similarity |-> Similarity(Distance(query, found[i].document))] ]

SearchFaults == { {}, {"encode"}, {"query"} }

\* the values given for top_k, each as a list of one (the empty list: top_k
\* is left out, None)
TopKs == { << >>, << 0 >>, << 1 >>, << 2 >> }

\* lines 156-157: top_k, or the configured default
EffectiveTopK(top_k) == IF top_k = << >> THEN TOP_K_RESULTS ELSE top_k[1]

\* VectorStore.search(query, top_k) once ChromaDB has answered with found, or
\* failed: raised names the call whose exception leaves search, size is the
\* number of entries of coll (history). ChromaDB rejects n_results < 1
Search(coll, exists, query, top_k, faults, found) ==
  LET n_results == EffectiveTopK(top_k)
      raised == IF "encode" \in faults THEN "encode"
                ELSE IF ~exists \/ "query" \in faults \/ n_results < 1 THEN "query"
                ELSE None
  IN  [op |-> "search", query |-> query, top_k |-> n_results, faults |-> faults,
       size |-> Cardinality(coll), raised |-> raised,
       result |-> IF raised = None THEN FormatResults(query, found) ELSE << >>]

\* the entries of one video
EntriesOf(coll, video_id) == { e \in coll : e.metadata.video_id = video_id }

\* a mutant of ListVideos: the count of a record stays at its first entry
ListVideosUncounted(coll) == { [video_id |-> e.metadata.video_id, chunks |-> 1] : e \in coll }

\* VectorStore.list_videos, lines 205-222: one record per video_id met,
\* counting its entries
ListVideos(coll) ==
  { [video_id |-> v, chunks |-> Cardinality(EntriesOf(coll, v))] :
      v \in { e.metadata.video_id : e \in coll } }

\* VectorStore.get_collection_stats
GetCollectionStats(coll) ==
  [total_chunks |-> Cardinality(coll), total_videos |-> Cardinality(ListVideos(coll))]

ReadFaults == { {}, {"get"}, {"count"} }

\* VectorStore.list_videos with its try/except: [] when collection.get raises
ListVideosResult(coll, exists, faults) ==
  IF ~exists \/ "get" \in faults THEN {} ELSE ListVideos(coll)

\* VectorStore.get_collection_stats with its try/except: {} when
\* collection.count raises; total_videos counts what list_videos returned
GetCollectionStatsResult(coll, exists, faults) ==
  IF ~exists \/ "count" \in faults THEN << >>
  ELSE [total_chunks |-> Cardinality(coll),
        total_videos |-> Cardinality(ListVideosResult(coll, exists, faults))]

(***************************************************************************)
(* LLMInterface (src/src/llm_interface.py) and VideoQASystem.ask_question. *)
(* An answer string is held as a record naming what it was built from.     *)
(***************************************************************************)
LlmTypes == {"local", "fallback"}

\* LLMInterface.__init__ and _initialize_local_model: cuda is
\* torch.cuda.is_available(), first_ok and cpu_ok tell whether GPT4All(...)
\* of line 29/35 and of line 43 returned. The argument model_type is not read
LLMInterfaceInit(model_type, cuda, first_ok, cpu_ok) ==
  LET device == IF cuda THEN "cuda" ELSE "cpu"
  IN  IF first_ok
      THEN [model_type |-> "local", device |-> device, loads |-> << device >>]
      ELSE IF cpu_ok
      THEN [model_type |-> "local", device |-> "cpu", loads |-> << device, "cpu" >>]
      ELSE [model_type |-> "fallback", device |-> device, loads |-> << device, "cpu" >>]

\* metadata.get('video_title', 'Unknown Video')
VideoTitle(metadata) ==
  IF "video_title" \in DOMAIN metadata THEN metadata.video_title ELSE "Unknown Video"

\* _format_context: one "Source i: title (at m:ss) / Content: document"
\* block per item
FormatContext(context) ==
  IF context = << >> THEN << "No relevant context found." >>
  ELSE [ i \in 1..Len(context) |->
           [source |-> i, video_title |-> VideoTitle(context[i].metadata),
            timestamp |-> IF "start_time" \in DOMAIN context[i].metadata
                          THEN << context[i].metadata.start_time \div 60,
                                  context[i].metadata.start_time % 60 >>
                          ELSE << >>,
            content |-> context[i].document] ]

\* _generate_fallback_answer: the template filled with the titles of the
\* items and the documents its preview is cut from
GenerateFallbackAnswer(question, context) ==
  IF context = << >> THEN [kind |-> "fallback", question |-> question, videos |-> {},
                           content |-> << >>]
  ELSE [kind |-> "fallback", question |-> question,
        videos |-> { VideoTitle(context[i].metadata) : i \in 1..Len(context) },
        content |-> [ i \in 1..Len(context) |-> context[i].document ]]

\* what self.model.generate does in a call: it raises, or its response is
\* empty once cleaned, or it holds text
GenOutcomes == {"raises", "empty", "text"}

\* a mutant of GenerateLocalAnswer: the exception of the model is not caught
GenerateLocalAnswerUncaught(question, context_text, gen) ==
  IF gen = "raises" THEN [raised |-> "generate", answer |-> [kind |-> "none"], model_calls |-> 1]
  ELSE [raised |-> None, model_calls |-> 1,
        answer |-> [kind |-> "model", question |-> question, context |-> context_text]]

\* _generate_local_answer (lines 86-107)
GenerateLocalAnswer(question, context_text, gen) ==
  CASE gen = "raises" ->
         [raised |-> None, model_calls |-> 1,
          answer |-> GenerateFallbackAnswer(question,
                       << [document |-> context_text, metadata |-> << >>] >>)]
    [] gen = "empty" ->
         [raised |-> None, model_calls |-> 1, answer |-> [kind |-> "no_clear_answer"]]
    [] OTHER ->
         [raised |-> None, model_calls |-> 1,
          answer |-> [kind |-> "model", question |-> question, context |-> context_text]]

\* generate_answer (lines 51-62): raised names an exception that leaves it,
\* model_calls counts the calls of self.model.generate
GenerateAnswer(model_type, question, context, gen) ==
  LET context_text == FormatContext(context)
  IN  IF model_type = "local"
      THEN GenerateLocalAnswer(question, context_text, gen)
      ELSE [raised |-> None, model_calls |-> 0,
            answer |-> GenerateFallbackAnswer(question, context)]

\* a mutant of AskQuestion: the generator is given the empty context too
AskQuestionAlwaysGenerates(model_type, question, searched, gen) ==
  IF searched.raised # None
  THEN [answer |-> [kind |-> "error", error |-> searched.raised], generated |-> << >>,
        model_calls |-> 0]
  ELSE LET g == GenerateAnswer(model_type, question, searched.result, gen)
       IN  [answer |-> g.answer, generated |-> << searched.result >>,
            model_calls |-> g.model_calls]

\* ask_question (lines 96-113) once search has ended as searched: generated
\* lists the contexts generate_answer was called with
AskQuestion(model_type, question, searched, gen) ==
  IF searched.raised # None
  THEN [answer |-> [kind |-> "error", error |-> searched.raised], generated |-> << >>,
        model_calls |-> 0]
  ELSE IF searched.result = << >>
  THEN [answer |-> [kind |-> "no_relevant_information"], generated |-> << >>,
        model_calls |-> 0]
  ELSE LET g == GenerateAnswer(model_type, question, searched.result, gen)
       IN  IF g.raised # None
           THEN [answer |-> [kind |-> "error", error |-> g.raised],
                 generated |-> << searched.result >>, model_calls |-> g.model_calls]
           ELSE [answer |-> g.answer, generated |-> << searched.result >>,
                 model_calls |-> g.model_calls]

(***************************************************************************)
(* State.                                                                  *)
(***************************************************************************)
VARIABLES
  c_text,        \* chunk_text: the argument text
  c_chunk_size,  \* chunk_text: the argument chunk_size
  c_overlap,     \* chunk_text: the argument overlap
  c_start,       \* chunk_text: the local start
  c_chunks,      \* chunk_text: the local chunks, and the list returned
  c_windows,     \* history: the <<start, end>> of each iteration so far
  c_pc,          \* chunk_text: "call", "loop" (at line 50) or "done" (returned)
  collection,    \* the entries of the ChromaDB collection "video_transcripts"
  usable,        \* whether self.collection names a collection that exists
  files,         \* the transcript cache: video_id -> transcript saved, or None
  config,        \* Config(): the settings read from the environment
  source,        \* the transcripts the transcript source may deliver
  last,          \* history: the last call completed and how it ended
  w_pc,          \* the handler running add_video: the backend call it is about to make
  w_call,        \* that handler's locals
  r_obs,         \* history: what the reading handler last got, and when
  s_chunk_text,  \* _find_segments_for_chunk: the argument chunk_text
  s_segments,    \* _find_segments_for_chunk: the argument segments
  s_i,           \* _find_segments_for_chunk: the segments the for loop has passed
  s_relevant,    \* _find_segments_for_chunk: relevant_segments, and the list returned
  s_pc,          \* _find_segments_for_chunk: "loop" (at line 148) or "done" (returned)
  b_urls,        \* add_videos: the argument video_urls
  b_force,       \* add_videos: the argument force_refresh
  b_i,           \* add_videos: the URLs the for loop has passed
  b_results,     \* add_videos: the dict results, as a set of <<url, success>>
  b_calls,       \* history: the add_video calls made, each with its result
  b_pc,          \* add_videos: "loop" (at line 76) or "done" (returned)
  l_llm_type,    \* the llm_type given to VideoQASystem(llm_type)
  l_model_type,  \* LLMInterface.model_type
  l_device,      \* LLMInterface.device
  l_loads        \* history: the devices GPT4All(...) was constructed for, in order

chunkVars == << c_text, c_chunk_size, c_overlap, c_start, c_chunks, c_windows, c_pc >>

storeVars == << collection, usable, files, config, source, last >>

concVars == << w_pc, w_call, r_obs >>

segVars == << s_chunk_text, s_segments, s_i, s_relevant, s_pc >>

batchVars == << b_urls, b_force, b_i, b_results, b_calls, b_pc >>

llmVars == << l_llm_type, l_model_type, l_device, l_loads >>

vars == << chunkVars, storeVars, concVars, segVars, batchVars, llmVars >>

\* the chunk_text variables while no chunk_text run is followed
ChunkIdle ==
  /\ c_text = << >>
  /\ c_chunk_size = CHUNK_SIZE
  /\ c_overlap = CHUNK_OVERLAP
  /\ c_start = 0
  /\ c_chunks = << >>
  /\ c_windows = << >>
  /\ c_pc = "idle"

\* the _find_segments_for_chunk variables while no run of it is followed
SegIdle ==
  /\ s_chunk_text = << >>
  /\ s_segments = << >>
  /\ s_i = 0
  /\ s_relevant = << >>
  /\ s_pc = "idle"

\* the add_videos variables while no run of it is followed
BatchIdle ==
  /\ b_urls = << >>
  /\ b_force = FALSE
  /\ b_i = 0
  /\ b_results = {}
  /\ b_calls = << >>
  /\ b_pc = "idle"

\* the generator of a system constructed with the default llm_type whose
\* model loaded on the CPU
LlmIdle ==
  /\ l_llm_type = "local"
  /\ l_model_type = "local"
  /\ l_device = "cpu"
  /\ l_loads = << "cpu" >>

\* VectorStore.__init__ on a fresh data directory, no transcript saved yet
StoreInit(cfg, tids) ==
  /\ config = cfg
  /\ source = tids
  /\ collection = {}
  /\ usable = TRUE
  /\ files = [v \in Videos |-> None]
  /\ last = [op |-> "init"]
  /\ w_pc = "idle"
  /\ w_call = [op |-> "none"]
  /\ r_obs = [op |-> "none"]

(***************************************************************************)
(* chunk_text as a loop (SpecChunk).                                       *)
(***************************************************************************)
ChunkInit ==
  /\ \E inp \in ChunkInputs :
       /\ c_text = inp.text
       /\ c_chunk_size = inp.chunk_size
       /\ c_overlap = inp.overlap
  /\ c_start = 0
  /\ c_chunks = << >>
  /\ c_windows = << >>
  /\ c_pc = "call"
  /\ StoreInit(DefaultConfig, {})
  /\ SegIdle
  /\ BatchIdle
  /\ LlmIdle

\* lines 44-48: the short text is returned whole, otherwise the loop is entered
ChunkCall ==
  /\ c_pc = "call"
  /\ IF Len(c_text) <= c_chunk_size
     THEN /\ c_chunks' = ShortResult(c_text)
          /\ c_pc' = "done"
     ELSE /\ c_chunks' = << >>
          /\ c_pc' = "loop"
  /\ c_start' = 0
  /\ UNCHANGED << c_text, c_chunk_size, c_overlap, c_windows, storeVars, concVars, segVars, batchVars, llmVars >>

\* lines 50-71: one iteration of the while loop
ChunkIter ==
  /\ c_pc = "loop"
  /\ c_start < Len(c_text)
  /\ Len(c_windows) < MaxIter
  /\ LET end == WindowEnd(c_text, c_chunk_size, c_start)
     IN  /\ c_chunks' = AppendChunk(c_chunks, ChunkOf(c_text, c_start, end))
         /\ c_windows' = Append(c_windows, << c_start, end >>)
         /\ c_start' = NextStart(end, c_overlap)
         /\ c_pc' = IF c_start' >= Len(c_text) THEN "done" ELSE "loop"
  /\ UNCHANGED << c_text, c_chunk_size, c_overlap, storeVars, concVars, segVars, batchVars, llmVars >>

ChunkNext == ChunkCall \/ ChunkIter

SpecChunk == ChunkInit /\ [][ChunkNext]_vars

(***************************************************************************)
(* _find_segments_for_chunk as a loop (SpecSegments).                      *)
(***************************************************************************)
\* lines 145-146: the call, relevant_segments = []
SegInit ==
  /\ s_chunk_text \in CaseTexts(MaxChunkLen)
  /\ s_segments \in SegmentLists
  /\ s_i = 0
  /\ s_relevant = << >>
  /\ s_pc = "loop"
  /\ ChunkIdle
  /\ BatchIdle
  /\ LlmIdle
  /\ StoreInit(DefaultConfig, {})

\* lines 148-150: one pass of the for loop
SegIter ==
  /\ s_pc = "loop"
  /\ s_i < Len(s_segments)
  /\ s_relevant' = SegmentStep(Lower(s_chunk_text), s_segments[s_i + 1], s_relevant)
  /\ s_i' = s_i + 1
  /\ UNCHANGED << s_chunk_text, s_segments, s_pc, chunkVars, storeVars, concVars, batchVars, llmVars >>

\* line 152: return relevant_segments
SegReturn ==
  /\ s_pc = "loop"
  /\ s_i >= Len(s_segments)
  /\ s_pc' = "done"
  /\ UNCHANGED << s_chunk_text, s_segments, s_i, s_relevant, chunkVars, storeVars, concVars, batchVars, llmVars >>

SegNext == SegIter \/ SegReturn

SpecSegments == SegInit /\ [][SegNext]_vars

(***************************************************************************)
(* The store, one action per call of VideoQASystem (Spec).                 *)
(***************************************************************************)
\* extract_transcript(video_id), called once: the transcript the source
\* delivers, or None when anything in it failed (lines 126-128)
ExtractTranscript(src) == {None} \cup src

\* a mutant of SaveIfExtracted: the file is written whatever was extracted
SaveAlways(fs, video_id, extracted) == [fs EXCEPT ![video_id] = extracted]

\* lines 168-175 of extract_and_save_transcript: save_transcript is called
\* only when extract_transcript returned a transcript
SaveIfExtracted(fs, video_id, extracted) ==
  IF extracted # None THEN [fs EXCEPT ![video_id] = extracted] ELSE fs

\* the record of a completed add_video
\* (removed: the count remove_video reported inside add_transcript)
AddVideoDone(video_id, force_refresh, acquired, tid, result, raised, removed, remove_error) ==
  [op |-> "add_video", video_id |-> video_id, force_refresh |-> force_refresh,
   acquired |-> acquired, tid |-> tid, result |-> result, raised |-> raised,
   removed |-> removed, remove_error |-> remove_error]

\* lines 52-61 of add_video: add_transcript(transcript_data) inside the try
IndexTranscript(transcript_data, force_refresh, acquired, tid) ==
  \E faults \in AddFaults :
    LET r == AddTranscript(collection, usable, config, transcript_data, faults)
    IN  /\ collection' = r.collection
        /\ last' = AddVideoDone(transcript_data.video_id, force_refresh, acquired, tid,
                                r.raised = None, r.raised, r.removed, r.remove_error)

\* VideoQASystem.add_video(video_url, force_refresh), with
\* extract_and_save_transcript; acquired tells whether extract_transcript was
\* called ("skipped": the saved transcript was used) and how it ended
AddVideo(video_url, force_refresh) ==
  LET video_id == ExtractVideoId(video_url)
  IN  IF video_id = None
      THEN /\ last' = AddVideoDone(None, force_refresh, "no_video_id", None, FALSE, None, 0, None)
           /\ UNCHANGED << collection, files >>
      ELSE IF UseCached(files, video_id, force_refresh)
      THEN /\ IndexTranscript(LoadTranscript(files, video_id), force_refresh,
                              "skipped", files[video_id])
           /\ UNCHANGED files
      ELSE \E extracted \in ExtractTranscript(source) :
             /\ files' = SaveIfExtracted(files, video_id, extracted)
             /\ IF extracted = None
                THEN /\ last' = AddVideoDone(video_id, force_refresh, "failed", None, FALSE,
                                             None, 0, None)
                     /\ UNCHANGED collection
                ELSE IndexTranscript(TranscriptData(video_id, extracted), force_refresh,
                                     "fetched", extracted)

AddVideoCall ==
  /\ \E video_url \in Urls, force_refresh \in BOOLEAN : AddVideo(video_url, force_refresh)
  /\ UNCHANGED << usable, config, source, chunkVars, segVars, concVars, batchVars, llmVars >>

\* VideoQASystem.remove_video(video_id)
RemoveVideoCall ==
  /\ \E video_id \in Videos, faults \in RemoveFaults :
       LET r == RemoveVideo(collection, usable, video_id, faults)
       IN  /\ collection' = r.collection
           /\ last' = [op |-> "remove_video", video_id |-> video_id,
                       result |-> (r.removed > 0), removed |-> r.removed,
                       remove_error |-> r.error]
  /\ UNCHANGED << usable, files, config, source, chunkVars, segVars, concVars, batchVars, llmVars >>

\* VideoQASystem.clear_knowledge_base -> VectorStore.clear_database:
\* delete_collection also raises when no collection of that name exists
ClearKnowledgeBase ==
  /\ \E faults \in ClearFaults :
       IF ~usable \/ "delete_collection" \in faults
       THEN /\ last' = [op |-> "clear", result |-> FALSE, raised |-> "delete_collection"]
            /\ UNCHANGED << collection, usable >>
       ELSE IF "get_or_create_collection" \in faults
       THEN /\ collection' = {}
            /\ usable' = FALSE
            /\ last' = [op |-> "clear", result |-> FALSE, raised |-> "get_or_create_collection"]
       ELSE /\ collection' = {}
            /\ usable' = TRUE
            /\ last' = [op |-> "clear", result |-> TRUE, raised |-> None]
  /\ UNCHANGED << files, config, source, chunkVars, segVars, concVars, batchVars, llmVars >>

\* VideoQASystem.get_relevant_sources(question, top_k) -> VectorStore.search
SearchCall ==
  /\ \E query \in Queries, top_k \in TopKs, faults \in SearchFaults :
       \E found \in CollectionQuery(collection, query, EffectiveTopK(top_k)) :
             last' = Search(collection, usable, query, top_k, faults, found)
  /\ UNCHANGED << collection, usable, files, config, source, chunkVars, segVars, concVars, batchVars, llmVars >>

\* VideoQASystem.list_videos -> VectorStore.list_videos
ListVideosCall ==
  /\ \E faults \in { {}, {"get"} } :
       last' = [op |-> "list_videos", faults |-> faults,
                result |-> ListVideosResult(collection, usable, faults)]
  /\ UNCHANGED << collection, usable, files, config, source, chunkVars, segVars, concVars, batchVars, llmVars >>

\* VideoQASystem.get_stats -> VectorStore.get_collection_stats (gpu_memory
\* is left out)
GetStatsCall ==
  /\ \E faults \in ReadFaults :
       last' = [op |-> "get_stats", faults |-> faults,
                result |-> GetCollectionStatsResult(collection, usable, faults)]
  /\ UNCHANGED << collection, usable, files, config, source, chunkVars, segVars, concVars, batchVars, llmVars >>

\* the store under CHUNK_SIZE=120, CHUNK_OVERLAP=10
Init == ChunkIdle /\ SegIdle /\ BatchIdle /\ LlmIdle /\ StoreInit(SmallConfig, {"t1", "t3"})

\* the store under the default configuration, fed 2500-character transcripts
InitDefault == ChunkIdle /\ SegIdle /\ BatchIdle /\ LlmIdle /\ StoreInit(DefaultConfig, {"t2500", "t2500s"})

Next ==
  \/ AddVideoCall
  \/ RemoveVideoCall
  \/ ClearKnowledgeBase
  \/ SearchCall
  \/ ListVideosCall
  \/ GetStatsCall

Spec == Init /\ [][Next]_vars

\* the calls that change the store
NextDefault == AddVideoCall \/ RemoveVideoCall \/ ClearKnowledgeBase

SpecDefault == InitDefault /\ [][NextDefault]_vars

\* ---------------------------------------------------------------------------
\* VideoQASystem.add_videos, one step per iteration of its for loop
\* ---------------------------------------------------------------------------

MaxBatch == 2

\* the lists video_urls of at most MaxBatch URLs
UrlLists == UNION { [1..n -> Urls] : n \in 0..MaxBatch }

\* a dict assignment that keeps the value a key already has (dict.setdefault)
DictSetDefault(d, key, value) ==
  IF \E p \in d : p[1] = key THEN d ELSE d \cup { << key, value >> }

\* results[url] = value on a dict held as a set of << key, value >>
DictSet(d, key, value) == { p \in d : p[1] # key } \cup { << key, value >> }

\* the keys of such a dict
DictKeys(d) == { p[1] : p \in d }

\* add_videos is called with video_urls and force_refresh: results = {}
BatchBegin ==
  /\ b_pc \in {"idle", "done"}
  /\ b_urls' \in UrlLists
  /\ b_force' \in BOOLEAN
  /\ b_i' = 0
  /\ b_results' = {}
  /\ b_calls' = << >>
  /\ b_pc' = "loop"
  /\ UNCHANGED << storeVars, chunkVars, segVars, concVars, llmVars >>

\* one iteration of the for loop: results[url] = self.add_video(url, force_refresh)
BatchIter ==
  /\ b_pc = "loop"
  /\ b_i < Len(b_urls)
  /\ LET url == b_urls[b_i + 1]
     IN  /\ AddVideo(url, b_force)
         /\ b_results' = DictSet(b_results, url, last'.result)
         /\ b_calls' = Append(b_calls, [url |-> url, result |-> last'.result])
  /\ b_i' = b_i + 1
  /\ UNCHANGED << b_urls, b_force, b_pc, usable, config, source, chunkVars, segVars,
                  concVars, llmVars >>

\* the loop is exhausted: the summary is printed and results returned
BatchReturn ==
  /\ b_pc = "loop"
  /\ b_i >= Len(b_urls)
  /\ b_pc' = "done"
  /\ UNCHANGED << b_urls, b_force, b_i, b_results, b_calls, storeVars, chunkVars,
                  segVars, concVars, llmVars >>

BatchNext == BatchBegin \/ BatchIter \/ BatchReturn

InitBatch == ChunkIdle /\ SegIdle /\ BatchIdle /\ LlmIdle /\ StoreInit(SmallConfig, {"t3"})

SpecBatch == InitBatch /\ [][BatchNext]_vars

\* ---------------------------------------------------------------------------
\* Questions: VideoQASystem(llm_type), ask_question, get_relevant_sources and
\* LLMInterface.generate_answer
\* ---------------------------------------------------------------------------

\* VideoQASystem.ask_question(question, top_k)
AskQuestionCall ==
  /\ \E question \in Queries, top_k \in TopKs, faults \in SearchFaults, gen \in GenOutcomes :
       \E found \in CollectionQuery(collection, question, EffectiveTopK(top_k)) :
         LET searched == Search(collection, usable, question, top_k, faults, found)
             asked == AskQuestion(l_model_type, question, searched, gen)
         IN  last' = [op |-> "ask_question", question |-> question, search |-> searched,
                      generated |-> asked.generated, model_calls |-> asked.model_calls,
                      gen |-> gen, raised |-> None, answer |-> asked.answer]
  /\ UNCHANGED << collection, usable, files, config, source, chunkVars, segVars, concVars,
                  batchVars, llmVars >>

\* LLMInterface.generate_answer(question, context) on the empty context or on
\* a context that search delivers
GenerateAnswerCall ==
  /\ \E question \in Queries, gen \in GenOutcomes :
       \E found \in CollectionQuery(collection, question, 0) \cup
                    CollectionQuery(collection, question, TOP_K_RESULTS) :
         LET context == FormatResults(question, found)
             g == GenerateAnswer(l_model_type, question, context, gen)
         IN  last' = [op |-> "generate_answer", question |-> question, context |-> context,
                      gen |-> gen, raised |-> g.raised, model_calls |-> g.model_calls,
                      answer |-> g.answer]
  /\ UNCHANGED << collection, usable, files, config, source, chunkVars, segVars, concVars,
                  batchVars, llmVars >>

\* VideoQASystem(llm_type) on a fresh data directory: LLMInterface(model_type
\* = llm_type) is constructed with or without CUDA, its loads failing or not
InitAsk ==
  /\ ChunkIdle /\ SegIdle /\ BatchIdle
  /\ StoreInit(SmallConfig, {"t3"})
  /\ \E llm_type \in LlmTypes, cuda \in BOOLEAN, first_ok \in BOOLEAN, cpu_ok \in BOOLEAN :
       LET llm == LLMInterfaceInit(llm_type, cuda, first_ok, cpu_ok)
       IN  /\ l_llm_type = llm_type
           /\ l_model_type = llm.model_type
           /\ l_device = llm.device
           /\ l_loads = llm.loads

NextAsk == AddVideoCall \/ AskQuestionCall \/ SearchCall \/ GenerateAnswerCall

SpecAsk == InitAsk /\ [][NextAsk]_vars

(***************************************************************************)
(* Two request handlers on the shared qa_system (SpecConc): Flask's         *)
(* threaded server runs the add-video handler and the videos handler       *)
(* concurrently on the one global instance, which holds no lock. Each      *)
(* backend call is one step.                                               *)
(***************************************************************************)
\* the handler's locals when add_transcript(transcript_data) is entered; old
\* is the number of entries the video had then (history)
Entered(transcript_data, force_refresh, acquired, tid) ==
  [op |-> "add_video", video_id |-> transcript_data.video_id,
   transcript |-> transcript_data.transcript, segments |-> transcript_data.segments,
   force_refresh |-> force_refresh,
   acquired |-> acquired, tid |-> tid, ids |-> {}, removed |-> 0, remove_error |-> None,
   old |-> Cardinality(EntriesOf(collection, transcript_data.video_id))]

\* the handler returns from add_video
Return(result, raised) ==
  /\ last' = AddVideoDone(w_call.video_id, w_call.force_refresh, w_call.acquired,
                          w_call.tid, result, raised, w_call.removed, w_call.remove_error)
  /\ w_pc' = "idle"
  /\ w_call' = [op |-> "none"]

\* add_video up to the call of add_transcript: extract_and_save_transcript
WBegin ==
  /\ w_pc = "idle"
  /\ \E video_url \in Urls, force_refresh \in BOOLEAN :
       LET video_id == ExtractVideoId(video_url)
       IN  IF video_id = None
           THEN /\ last' = AddVideoDone(None, force_refresh, "no_video_id", None, FALSE, None, 0, None)
                /\ UNCHANGED << files, w_pc, w_call >>
           ELSE IF UseCached(files, video_id, force_refresh)
           THEN /\ w_call' = Entered(LoadTranscript(files, video_id), force_refresh,
                                     "skipped", files[video_id])
                /\ w_pc' = "get"
                /\ UNCHANGED << files, last >>
           ELSE \/ /\ last' = AddVideoDone(video_id, force_refresh, "failed", None, FALSE, None, 0, None)
                   /\ UNCHANGED << files, w_pc, w_call >>
                \/ \E tid \in source :
                     /\ files' = [files EXCEPT ![video_id] = tid]
                     /\ w_call' = Entered(TranscriptData(video_id, tid), force_refresh,
                                          "fetched", tid)
                     /\ w_pc' = "get"
                     /\ UNCHANGED last
  /\ UNCHANGED << collection, usable, config, source, r_obs, chunkVars, segVars, batchVars, llmVars >>

\* remove_video line 188: collection.get(where={"video_id": video_id})
WGet ==
  /\ w_pc = "get"
  /\ \E faults \in { {}, {"get"} } :
       IF ~usable \/ "get" \in faults
       THEN /\ w_call' = [w_call EXCEPT !.remove_error = "get"]
            /\ w_pc' = "encode"
       ELSE LET ids == CollectionGet(collection, w_call.video_id)
            IN  /\ w_call' = [w_call EXCEPT !.ids = ids]
                /\ w_pc' = IF ids = {} THEN "encode" ELSE "delete"
  /\ UNCHANGED << storeVars, r_obs, chunkVars, segVars, batchVars, llmVars >>

\* remove_video line 193: collection.delete(ids=results['ids'])
WDelete ==
  /\ w_pc = "delete"
  /\ \E faults \in { {}, {"delete"} } :
       IF ~usable \/ "delete" \in faults
       THEN /\ w_call' = [w_call EXCEPT !.remove_error = "delete"]
            /\ UNCHANGED collection
       ELSE /\ collection' = CollectionDelete(collection, w_call.ids)
            /\ w_call' = [w_call EXCEPT !.removed = Cardinality(w_call.ids)]
  /\ w_pc' = "encode"
  /\ UNCHANGED << usable, files, config, source, last, r_obs, chunkVars, segVars, batchVars, llmVars >>

\* add_transcript lines 86-129: chunking, the entries, embedding_model.encode
WEncode ==
  /\ w_pc = "encode"
  /\ \E faults \in { {}, {"encode"} } :
       IF "encode" \in faults
       THEN Return(FALSE, "encode")
       ELSE /\ w_pc' = "add"
            /\ UNCHANGED << last, w_call >>
  /\ UNCHANGED << collection, usable, files, config, source, r_obs, chunkVars, segVars, batchVars, llmVars >>

\* add_transcript lines 132-140: collection.add, and the return of add_video
WAdd ==
  /\ w_pc = "add"
  /\ \E faults \in { {}, {"add"} } :
       IF ~usable \/ "add" \in faults
       THEN /\ Return(FALSE, "add")
            /\ UNCHANGED collection
       ELSE /\ collection' = CollectionAdd(collection,
                 BuildEntries(w_call.video_id, ChunkTextOf(config, w_call.transcript),
                              w_call.segments))
            /\ Return(TRUE, None)
  /\ UNCHANGED << usable, files, config, source, r_obs, chunkVars, segVars, batchVars, llmVars >>

\* what a read is recorded with: the video the other handler is indexing, the
\* number of entries it had when add_transcript was entered and the number of
\* chunks being indexed (None: no add_transcript is in progress)
Observed(op, value) ==
  IF w_pc = "idle"
  THEN [op |-> op, value |-> value, during |-> None]
  ELSE [op |-> op, value |-> value, during |-> w_call.video_id, old |-> w_call.old,
        new |-> Len(ChunkTextOf(config, w_call.transcript))]

\* the videos handler: qa_system.list_videos()
RListVideos ==
  /\ r_obs' = Observed("list_videos", ListVideos(collection))
  /\ UNCHANGED << storeVars, w_pc, w_call, chunkVars, segVars, batchVars, llmVars >>

\* the videos and health handlers: qa_system.get_stats()
RGetStats ==
  /\ r_obs' = Observed("get_stats", GetCollectionStats(collection))
  /\ UNCHANGED << storeVars, w_pc, w_call, chunkVars, segVars, batchVars, llmVars >>

NextConc == WBegin \/ WGet \/ WDelete \/ WEncode \/ WAdd \/ RListVideos \/ RGetStats

InitConc == ChunkIdle /\ SegIdle /\ BatchIdle /\ LlmIdle /\ StoreInit(SmallConfig, {"t1"})

SpecConc == InitConc /\ [][NextConc]_vars

(***************************************************************************)
(* Claims about chunk_text (SpecChunk).                                    *)
(***************************************************************************)
\* C6: chunk_text terminates for every 0 <= overlap < chunk_size: start
\* strictly increases from one iteration of the loop to the next.
C6_StartIncreases ==
  [][(c_pc = "loop" /\ c_pc' = "loop") => c_start' > c_start]_vars

\* C8: every string chunk_text returns (or has collected so far) is at most
\* chunk_size characters long.
C8_ChunkLengthBound ==
  \A k \in 1..Len(c_chunks) : Len(c_chunks[k]) <= c_chunk_size

\* chunk_text has returned, and one of its windows ended on a sentence ending
\* whose first character was the last character of the window
C8_Witness ==
  /\ c_pc = "done"
  /\ \E k \in 1..Len(c_windows) :
       /\ c_windows[k][2] = c_windows[k][1] + c_chunk_size + 1
       /\ c_windows[k][1] >= 0
  /\ \E k \in 1..Len(c_chunks) : Len(c_chunks[k]) = c_chunk_size

\* C9: chunk_text returns only non-empty strings, for every text.
C9_NonEmptyChunks ==
  c_pc = "done" => \A k \in 1..Len(c_chunks) : c_chunks[k] # << >>

\* C10 as stated: a text longer than chunk_size yields more than one chunk.
C10_MoreThanOneChunk ==
  (c_pc = "done" /\ Len(c_text) > c_chunk_size) => Len(c_chunks) > 1

\* C10 as amended: a text longer than chunk_size whose first and last
\* characters are not whitespace yields more than one chunk.
C10_MoreThanOneChunkTrimmed ==
  ( /\ c_pc = "done"
    /\ Len(c_text) > c_chunk_size
    /\ c_text[1] \notin Whitespace
    /\ c_text[Len(c_text)] \notin Whitespace )
  => Len(c_chunks) > 1

\* chunk_text has returned two or more chunks for such a text, one of whose
\* windows was blank and gave no chunk
C10_Witness ==
  /\ c_pc = "done"
  /\ Len(c_text) > c_chunk_size
  /\ c_text[1] \notin Whitespace
  /\ c_text[Len(c_text)] \notin Whitespace
  /\ Len(c_chunks) > 1
  /\ Len(c_chunks) < Len(c_windows)

(***************************************************************************)
(* Claims about the store (Spec, SpecDefault).                             *)
(***************************************************************************)
\* the last call was an add_video that returned True
AddSucceeded == last.op = "add_video" /\ last.result

\* ... and no backend call inside it raised
AddClean == AddSucceeded /\ last.remove_error = None

\* the chunks of the transcript the last add_video indexed
LastChunks == ChunkTextOf(config, Transcripts[last.tid])

\* C1: after a video that was indexed is indexed again, every backend call
\* succeeding, list_videos holds exactly one record of it, whose chunk count
\* and the total_chunks of the statistics count the chunks of the last call only.
C1_ReindexReplaces ==
  (AddClean /\ last.removed > 0) =>
    LET v == last.video_id
        n == Len(LastChunks)
        others == { r \in ListVideos(collection) : r.video_id # v }
    IN  /\ { r \in ListVideos(collection) : r.video_id = v } = { [video_id |-> v, chunks |-> n] }
        /\ GetCollectionStats(collection).total_chunks
             = n + Cardinality(collection \ EntriesOf(collection, v))
        /\ GetCollectionStats(collection).total_videos = 1 + Cardinality(others)

\* a video with three chunks was indexed again from a transcript of one chunk
C1_Witness ==
  /\ AddClean
  /\ last.removed = 3
  /\ Len(LastChunks) = 1
  /\ GetCollectionStats(collection).total_chunks = 1

\* C2: once add_video(v) has returned True, every entry of v comes from that
\* call, whatever the backend calls of remove_video did.
C2_NoStaleChunks ==
  AddSucceeded =>
    \A e \in EntriesOf(collection, last.video_id) :
      /\ e.metadata.chunk_index \in 0..(Len(LastChunks) - 1)
      /\ e.document = LastChunks[e.metadata.chunk_index + 1]

\* C3: an add_video of an indexed video whose embedding computation raises
\* returns False, leaves no entry of that video and leaves the others alone.
C3_FailedReindexRemoves ==
  [][ ( /\ last'.op = "add_video"
        /\ last'.raised = "encode"
        /\ EntriesOf(collection, last'.video_id) # {} )
      => ( /\ ~last'.result
           /\ EntriesOf(collection', last'.video_id) = {}
           /\ \A v \in Videos \ {last'.video_id} :
                EntriesOf(collection', v) = EntriesOf(collection, v) ) ]_vars

\* C5: the entries of each video carry the chunk_index values 0..n-1, each
\* once, under the id <video_id>_<chunk_index>; after an add_video whose
\* calls all succeeded they hold the chunks in the order chunk_text gave them.
C5_ContiguousChunkIndex ==
  /\ \A v \in Videos :
       LET E == EntriesOf(collection, v)
       IN  /\ { e.metadata.chunk_index : e \in E } = 0..(Cardinality(E) - 1)
           /\ \A e \in E : e.id = DocId(v, e.metadata.chunk_index)
  /\ \A e \in collection : e.metadata.video_id \in Videos
  /\ AddClean =>
       /\ Cardinality(EntriesOf(collection, last.video_id)) = Len(LastChunks)
       /\ \A e \in EntriesOf(collection, last.video_id) :
            e.document = LastChunks[e.metadata.chunk_index + 1]

\* both videos are indexed, the last one just now with three chunks
C5_Witness ==
  /\ AddClean
  /\ Cardinality(EntriesOf(collection, last.video_id)) = 3
  /\ \A v \in Videos : EntriesOf(collection, v) # {}

\* C7: a transcript of 2500 characters indexed under the default
\* configuration is stored as exactly three chunks, chunk_index 0, 1 and 2.
C7_ThreeChunks ==
  ( /\ AddClean
    /\ config = DefaultConfig
    /\ Len(Transcripts[last.tid]) = 2500 )
  => { e.metadata.chunk_index : e \in EntriesOf(collection, last.video_id) } = {0, 1, 2}

(***************************************************************************)
(* Claims about concurrent handlers (SpecConc).                            *)
(***************************************************************************)
\* C4: a list_videos that runs between the steps of another handler's
\* add_transcript(v), v indexed before, shows v with its old entries or with
\* its new ones, never without entries and never with another number of them.
C4_NoPartialState ==
  ( /\ r_obs.op = "list_videos"
    /\ r_obs.during # None
    /\ r_obs.old > 0 )
  => \E r \in r_obs.value :
       /\ r.video_id = r_obs.during
       /\ r.chunks \in {r_obs.old, r_obs.new}

(***************************************************************************)
(* Further claims about chunk_text (SpecChunk).                            *)
(***************************************************************************)
\* the character offsets (from 0) of the slice text[w[1]:w[2]]
WindowOffsets(w) == SliceIndex(Len(c_text), w[1])..(SliceIndex(Len(c_text), w[2]) - 1)

\* the iterations whose window gave a chunk that was appended
KeptWindows == { k \in 1..Len(c_windows) : ChunkOf(c_text, c_windows[k][1], c_windows[k][2]) # << >> }

\* the offsets inside the windows of the iterations K
Covered(K) == UNION { WindowOffsets(c_windows[k]) : k \in K }

\* each window starts at or before the end of the window before it
NoGap == \A k \in 2..Len(c_windows) : c_windows[k][1] <= c_windows[k - 1][2]

\* C11 as stated: when chunk_text has returned for a text longer than
\* chunk_size, every character offset lies in a window a chunk was appended
\* from, and consecutive windows leave no gap.
C11_KeptWindowsCover ==
  (c_pc = "done" /\ Len(c_text) > c_chunk_size) =>
    /\ Covered(KeptWindows) = 0..(Len(c_text) - 1)
    /\ NoGap

\* C11 as amended: when chunk_text has returned for a text longer than
\* chunk_size, every character offset lies in the window of some iteration,
\* every offset of a character that is not whitespace lies in a window a
\* chunk was appended from, and consecutive windows leave no gap.
C11_WindowsCover ==
  (c_pc = "done" /\ Len(c_text) > c_chunk_size) =>
    /\ Covered(1..Len(c_windows)) = 0..(Len(c_text) - 1)
    /\ \A p \in (0..(Len(c_text) - 1)) \ Covered(KeptWindows) : c_text[p + 1] \in Whitespace
    /\ NoGap

\* chunk_text has returned for such a text after three or more iterations with
\* overlapping windows, one of them blank: some offsets lie in no window a
\* chunk was appended from
C11_Witness ==
  /\ c_pc = "done"
  /\ Len(c_text) > c_chunk_size
  /\ Len(c_windows) >= 3
  /\ c_overlap > 0
  /\ KeptWindows # {}
  /\ Covered(KeptWindows) # 0..(Len(c_text) - 1)

\* C12: for a text of at most chunk_size characters chunk_text returns the
\* one-element list holding the text itself, not stripped.
C12_SingleChunkIdentity ==
  (c_pc = "done" /\ Len(c_text) <= c_chunk_size) => c_chunks = << c_text >>

\* chunk_text has returned a text of exactly chunk_size characters that
\* begins or ends with whitespace, as it was
C12_Witness ==
  /\ c_pc = "done"
  /\ Len(c_text) = c_chunk_size
  /\ Strip(c_text) # c_text
  /\ c_chunks = << c_text >>

(***************************************************************************)
(* Claims about _find_segments_for_chunk (SpecSegments).                   *)
(***************************************************************************)
\* the positions in segments of the segments whose lower-cased text occurs
\* in the lower-cased chunk
MatchingIn(chunk, segments) ==
  { k \in 1..Len(segments) :
      \E i \in 1..(Len(chunk) + 1) :
        \A j \in 1..Len(segments[k].text) :
          /\ i + j - 1 <= Len(chunk)
          /\ LowerChar(segments[k].text[j]) = LowerChar(chunk[i + j - 1]) }

Matching == MatchingIn(s_chunk_text, s_segments)

\* C13: _find_segments_for_chunk returns the segments whose lower-cased text
\* occurs in the lower-cased chunk, each once, in the order of the input list.
C13_SegmentMapping ==
  s_pc = "done" =>
    /\ Len(s_relevant) = Cardinality(Matching)
    /\ \A n \in 1..Len(s_relevant) :
         \E k \in Matching :
           /\ s_relevant[n] = s_segments[k]
           /\ Cardinality({ m \in Matching : m < k }) = n - 1

\* the call has returned the second of two segments only, which matches the
\* chunk through the change of case alone
C13_Witness ==
  /\ s_pc = "done"
  /\ Len(s_segments) = 2
  /\ s_relevant = << s_segments[2] >>
  /\ ~IsSubstring(s_segments[2].text, s_chunk_text)

(***************************************************************************)
(* Further claims about the store (Spec).                                  *)
(***************************************************************************)
\* C14: an entry carries start_time and end_time exactly when segments_count
\* is positive, and then start_time <= end_time; after an add_video whose
\* calls all succeeded, segments_count counts the segments matching the
\* chunk, start_time is the least start among them and end_time the greatest
\* start + duration.
C14_TimestampMetadata ==
  /\ \A e \in collection :
       /\ ("start_time" \in DOMAIN e.metadata) <=> (e.metadata.segments_count > 0)
       /\ ("end_time" \in DOMAIN e.metadata) <=> (e.metadata.segments_count > 0)
       /\ e.metadata.segments_count > 0 => e.metadata.start_time <= e.metadata.end_time
  /\ AddClean =>
       \A e \in EntriesOf(collection, last.video_id) :
         LET segs == Segments[last.tid]
             M == MatchingIn(e.document, segs)
         IN  /\ e.metadata.segments_count = Cardinality(M)
             /\ M # {} =>
                  /\ \E k \in M : e.metadata.start_time = segs[k].start
                  /\ \A k \in M : e.metadata.start_time <= segs[k].start
                  /\ \E k \in M : e.metadata.end_time = segs[k].start + segs[k].duration
                  /\ \A k \in M : e.metadata.end_time >= segs[k].start + segs[k].duration

\* the collection holds an entry of two matched segments, whose start_time
\* comes from the second of them and end_time from the first, and an entry
\* without timestamps
C14_Witness ==
  /\ AddClean
  /\ \E e \in EntriesOf(collection, last.video_id) :
       /\ e.metadata.segments_count = 2
       /\ e.metadata.start_time = 3
       /\ e.metadata.end_time = 14
  /\ \E e \in collection : "start_time" \notin DOMAIN e.metadata

\* the last call was a search that returned
SearchReturned == last.op = "search" /\ last.raised = None

\* what C15 says of a result: it holds min(top_k, collection size) items, at
\* most top_k; the items are distinct entries of the collection with
\* similarity = 1 - distance; the similarity never increases along the list;
\* no entry left out is nearer than an entry listed
SearchReference ==
  LET res == last.result
      listed == { [document |-> res[i].document, metadata |-> res[i].metadata] : i \in 1..Len(res) }
      stored == { [document |-> e.document, metadata |-> e.metadata] : e \in collection }
  IN  /\ Len(res) = Min2(last.top_k, Cardinality(collection))
      /\ Len(res) <= last.top_k
      /\ Cardinality(listed) = Len(res)
      /\ listed \subseteq stored
      /\ \A i \in 1..Len(res) :
           /\ res[i].distance = Distance(last.query, res[i].document)
           /\ res[i].similarity = 1 - res[i].distance
      /\ \A i \in 1..(Len(res) - 1) : res[i].similarity >= res[i + 1].similarity
      /\ \A x \in stored \ listed, i \in 1..Len(res) :
           Distance(last.query, x.document) >= res[i].distance

\* C15 as stated: with the collection in place and no failure of the
\* embedding model or of ChromaDB, search(query, top_k) returns the list the
\* reference gives, the empty list on an empty collection.
C15_SearchIsReference ==
  (last.op = "search" /\ usable /\ last.faults = {}) => (SearchReturned /\ SearchReference)

\* C15 as amended: the same for top_k >= 1, and whenever search returns.
C15_SearchIsReferenceFromOne ==
  /\ (last.op = "search" /\ usable /\ last.faults = {} /\ last.top_k >= 1)
       => (SearchReturned /\ SearchReference)
  /\ SearchReturned => SearchReference

\* a search with the default top_k has returned five of six entries, the last
\* less similar than the first, leaving out an entry as near as the last
C15_Witness ==
  /\ SearchReturned
  /\ last.top_k = TOP_K_RESULTS
  /\ Cardinality(collection) = TOP_K_RESULTS + 1
  /\ Len(last.result) = TOP_K_RESULTS
  /\ last.result[1].similarity > last.result[TOP_K_RESULTS].similarity
  /\ \E e \in collection :
       /\ Distance(last.query, e.document) = last.result[TOP_K_RESULTS].distance
       /\ \A i \in 1..TOP_K_RESULTS : e.metadata # last.result[i].metadata

\* a search of the empty collection has returned the empty list
C15_WitnessEmpty ==
  /\ SearchReturned
  /\ collection = {}
  /\ last.result = << >>

\* C16: remove_video(v) leaves no entry of v and leaves every other entry as
\* it was, returns the number of entries v had, returns 0 without changing
\* anything when v had none; a remove_video(v) right after another returns 0.
C16_RemoveVideoExact ==
  [][ last'.op = "remove_video" =>
        /\ collection' = collection \ EntriesOf(collection, last'.video_id)
        /\ last'.removed = Cardinality(EntriesOf(collection, last'.video_id))
        /\ (last.op = "remove_video" /\ last.video_id = last'.video_id) => last'.removed = 0 ]_vars

\* the same when neither collection.get nor collection.delete fails
C16_RemoveVideoExactNoFault ==
  [][ (last'.op = "remove_video" /\ last'.remove_error = None) =>
        /\ collection' = collection \ EntriesOf(collection, last'.video_id)
        /\ last'.removed = Cardinality(EntriesOf(collection, last'.video_id))
        /\ (last.op = "remove_video" /\ last.video_id = last'.video_id /\ last.remove_error = None)
             => last'.removed = 0 ]_vars

RECURSIVE SumChunks(_)
\* the sum of the chunks counts of the records
SumChunks(records) ==
  IF records = {} THEN 0
  ELSE LET r == CHOOSE x \in records : TRUE
       IN  r.chunks + SumChunks(records \ {r})

\* C17: when ChromaDB answers, list_videos returns one record for each
\* video_id present in the collection and no other, with chunks the number
\* of entries of that video_id; the total_chunks of get_collection_stats is
\* the sum of those counts and total_videos the number of records.
C17_ListVideosGroups ==
  /\ (last.op = "list_videos" /\ usable /\ last.faults = {}) =>
       /\ { r.video_id : r \in last.result } = { e.metadata.video_id : e \in collection }
       /\ \A r, q \in last.result : r.video_id = q.video_id => r = q
       /\ \A r \in last.result :
            r.chunks = Cardinality({ e \in collection : e.metadata.video_id = r.video_id })
  /\ (last.op = "get_stats" /\ usable /\ last.faults = {}) =>
       /\ last.result.total_chunks = SumChunks(ListVideosResult(collection, usable, {}))
       /\ last.result.total_videos = Cardinality(ListVideosResult(collection, usable, {}))

\* get_collection_stats has returned the totals of two videos with unequal
\* numbers of entries
C17_Witness ==
  /\ last.op = "get_stats"
  /\ usable
  /\ last.faults = {}
  /\ last.result.total_videos = 2
  /\ last.result.total_chunks = 4
  /\ \E r, q \in ListVideos(collection) : r.chunks = 3 /\ q.chunks = 1

\* C18: a clear_database that returns True leaves the collection in place
\* and empty; one that returns False leaves the entries and the collection
\* handle as they were, so that later calls keep working on them.
C18_ClearAllOrNothing ==
  [][ last'.op = "clear" =>
        IF last'.result
        THEN collection' = {} /\ usable'
        ELSE collection' = collection /\ usable' = usable ]_vars

\* C19: an add_video of a video whose transcript is saved, without
\* force_refresh, calls no extract_transcript and indexes the saved
\* transcript; with force_refresh or nothing saved extract_transcript is
\* called, and what gets indexed is what it delivered; the saved transcript
\* changes only when extract_transcript delivered one, to that one.
C19_AddVideoCaching ==
  [][ (last'.op = "add_video" /\ last'.video_id # None) =>
        LET v == last'.video_id
        IN  /\ (files[v] # None /\ ~last'.force_refresh)
                 => (last'.acquired = "skipped" /\ last'.tid = files[v])
            /\ (files[v] = None \/ last'.force_refresh)
                 => last'.acquired \in {"fetched", "failed"}
            /\ last'.acquired = "fetched" => files' = [files EXCEPT ![v] = last'.tid]
            /\ last'.acquired # "fetched" => files' = files
            /\ last'.acquired = "failed" => (~last'.result /\ collection' = collection)
            /\ (last'.result /\ last'.remove_error = None)
                 => EntriesOf(collection', v)
                      = BuildEntries(v, ChunkTextOf(config, Transcripts[last'.tid]),
                                     Segments[last'.tid]) ]_vars

\* a video stored as one chunk was indexed again from its saved one-chunk
\* transcript, extract_transcript not called, replacing the entry
C19_Witness ==
  /\ AddClean
  /\ last.acquired = "skipped"
  /\ files[last.video_id] = last.tid
  /\ last.removed = 1
  /\ Len(LastChunks) = 1

\* ---------------------------------------------------------------------------
\* C20: batch isolation of add_videos
\* ---------------------------------------------------------------------------

\* add_videos has returned
BatchReturned == b_pc = "done"

\* add_video was called once for every URL of the list, in the list's order
BatchCallsInOrder ==
  /\ Len(b_calls) = Len(b_urls)
  /\ \A i \in 1..Len(b_urls) : b_calls[i].url = b_urls[i]

\* the add_video calls made for url
CallsFor(url) == { i \in 1..Len(b_calls) : b_calls[i].url = url }

\* the last of them
LastCallFor(url) == CHOOSE i \in CallsFor(url) : \A j \in CallsFor(url) : j <= i

\* C20 as stated: when add_videos returns, add_video has been called for
\* every URL of the list in order, and the returned map holds, for the URL at
\* every position of the list, the outcome of the add made at that position
C20_BatchRecordsEveryAdd ==
  BatchReturned =>
    /\ BatchCallsInOrder
    /\ \A i \in 1..Len(b_urls) : << b_urls[i], b_calls[i].result >> \in b_results

\* C20 amended: when add_videos returns, add_video has been called for every
\* URL of the list in order, the returned map has exactly the list's distinct
\* URLs as keys, each once, and maps each to the outcome of the last add made
\* for it
C20_BatchRecordsLastAdd ==
  BatchReturned =>
    /\ BatchCallsInOrder
    /\ DictKeys(b_results) = { b_urls[i] : i \in 1..Len(b_urls) }
    /\ \A p \in b_results :
         /\ p[2] = b_calls[LastCallFor(p[1])].result
         /\ \A q \in b_results : q[1] = p[1] => q = p

\* add_videos returned {badUrl: false, goodUrl: true}: the add of the first
\* URL failed and the second URL was still added
C20_Witness ==
  /\ BatchReturned
  /\ Len(b_urls) = 2
  /\ b_calls[1].result = FALSE
  /\ b_calls[2].result = TRUE
  /\ b_results = { << b_urls[1], FALSE >>, << b_urls[2], TRUE >> }

\* ---------------------------------------------------------------------------
\* C25: boundary selection in chunk_text
\* ---------------------------------------------------------------------------

\* a sentence-boundary marker ('. ', '! ', '? ' or a blank line) starts at the
\* 0-based position i of the text
MarkerAt(i) ==
  /\ i >= 0
  /\ i + 2 <= Len(c_text)
  /\ \/ c_text[i + 1] \in {".", "!", "?"} /\ c_text[i + 2] = " "
     \/ c_text[i + 1] = "\n" /\ c_text[i + 2] = "\n"

\* the positions of [max(0, end - 100), end) at which a marker starts
MarkersBefore(end) == { i \in Max2(0, end - BOUNDARY_RANGE)..(end - 1) : MarkerAt(i) }

\* the window w = << start, end >> ends where boundary selection puts it
BoundaryChosen(w) ==
  LET end == w[1] + c_chunk_size
  IN  IF end >= Len(c_text) THEN w[2] = end
      ELSE IF MarkersBefore(end) = {} THEN w[2] = end
      ELSE /\ w[2] - 2 \in MarkersBefore(end)
           /\ \A i \in MarkersBefore(end) : i <= w[2] - 2

\* C25: every window of chunk_text whose end = start + chunk_size is before
\* the end of the text ends just after the marker that starts at the largest
\* position of [max(0, end - 100), end), or at start + chunk_size when no
\* marker starts there; a window that reaches the end of the text ends at
\* start + chunk_size.
C25_BoundarySelection ==
  \A k \in 1..Len(c_windows) : BoundaryChosen(c_windows[k])

\* chunk_text has returned; one window was moved to the later of two markers
\* of its range, another had no marker and kept its end, and the last one
\* reached the end of the text
C25_Witness ==
  /\ c_pc = "done"
  /\ \E k \in 1..Len(c_windows) :
       LET end == c_windows[k][1] + c_chunk_size
       IN  /\ end < Len(c_text)
           /\ Cardinality(MarkersBefore(end)) >= 2
           /\ c_windows[k][2] # end
  /\ \E k \in 1..Len(c_windows) :
       LET end == c_windows[k][1] + c_chunk_size
       IN  end < Len(c_text) /\ MarkersBefore(end) = {} /\ c_windows[k][2] = end
  /\ c_windows[Len(c_windows)][1] + c_chunk_size >= Len(c_text)

\* ---------------------------------------------------------------------------
\* C26: chunk_text stops once a window has reached the end of the text
\* ---------------------------------------------------------------------------

\* C26: for a text longer than chunk_size and 0 < overlap < chunk_size, every
\* chunk chunk_text emits after the first comes from a window holding a
\* character offset beyond the end of the window before it.
C26_NoChunkInsidePrevious ==
  ( /\ c_pc = "done"
    /\ Len(c_text) > c_chunk_size
    /\ 0 < c_overlap
    /\ c_overlap < c_chunk_size )
  => \A k \in 2..Len(c_windows) :
       k \in KeptWindows =>
         \E x \in WindowOffsets(c_windows[k]) : x >= c_windows[k - 1][2]

\* ---------------------------------------------------------------------------
\* C27: an acquisition failure changes nothing
\* ---------------------------------------------------------------------------

\* the add_video that just ended found no video id in the URL, or its one
\* call of extract_transcript delivered nothing
AcquisitionFailed == last.op = "add_video" /\ last.acquired \in {"no_video_id", "failed"}

\* C27: an add_video that ends with no video id or a failed acquisition
\* returns False and leaves the collection and the saved transcripts exactly
\* as they were before the call.
C27_AcquisitionFailureChangesNothing ==
  [][AcquisitionFailed' => /\ last'.result = FALSE
                           /\ collection' = collection
                           /\ files' = files]_vars

\* add_video(url, force_refresh = True) failed to acquire a video that is
\* indexed and has a saved transcript
C27_Witness ==
  /\ last.op = "add_video"
  /\ last.acquired = "failed"
  /\ last.force_refresh
  /\ EntriesOf(collection, last.video_id) # {}
  /\ files[last.video_id] # None

\* ---------------------------------------------------------------------------
\* C28: the summary counts of the add-videos command
\* ---------------------------------------------------------------------------

\* main.py line 59: successful = sum(1 for success in results.values() if success)
Successful == Cardinality({ p \in b_results : p[2] })

\* main.py line 60: failed = len(video_urls) - successful
Failed == Len(b_urls) - Successful

\* the add_video calls of the batch that returned result
CallsReturning(result) == { i \in 1..Len(b_calls) : b_calls[i].result = result }

\* C28: when the add-videos command reports its counts, successful is the
\* number of add_video calls that returned True, failed the number of calls
\* that returned False, and together they are the number of URLs given.
C28_SummaryCounts ==
  BatchReturned =>
    /\ Successful = Cardinality(CallsReturning(TRUE))
    /\ Failed = Cardinality(CallsReturning(FALSE))
    /\ Successful + Failed = Len(b_urls)

\* ---------------------------------------------------------------------------
\* C21: no public operation of VideoQASystem propagates an exception
\* ---------------------------------------------------------------------------

\* the exception that left the public operation last called: add_video and
\* ask_question catch every Exception (lines 59-61, 111-113);
\* get_relevant_sources hands on whatever VectorStore.search raised (line 129)
Propagated ==
  CASE last.op = "search" -> last.raised
    [] last.op = "ask_question" -> last.raised
    [] OTHER -> None

\* C21: whatever the embedding model, the index backend or the generator do,
\* no call of add_video, ask_question or get_relevant_sources ends with an
\* exception handed to its caller.
C21_NothingPropagates == Propagated = None

\* ---------------------------------------------------------------------------
\* C22: ask_question and the generator
\* ---------------------------------------------------------------------------

\* ask_question has ended and its search returned
AskSearched == last.op = "ask_question" /\ last.search.raised = None

\* C22: when the search of ask_question returns the empty list, the answer is
\* the fixed 'no relevant information' message and neither generate_answer
\* nor the model is called; when it returns a non-empty list, generate_answer
\* is called exactly once, with that list as it is.
C22_GeneratorOnlyOnContext ==
  AskSearched =>
    IF last.search.result = << >>
    THEN /\ last.answer.kind = "no_relevant_information"
         /\ last.generated = << >>
         /\ last.model_calls = 0
    ELSE last.generated = << last.search.result >>

\* ask_question found two entries and the model answered from them, in the
\* order search gave them
C22_Witness ==
  /\ AskSearched
  /\ Len(last.search.result) = 2
  /\ last.generated = << last.search.result >>
  /\ last.answer.kind = "model"
  /\ last.answer.context[1].content = last.search.result[1].document
  /\ last.answer.context[1].video_title # last.answer.context[2].video_title

\* ask_question on an empty collection answered with the fixed message
C22_WitnessEmpty ==
  /\ AskSearched
  /\ last.search.result = << >>
  /\ last.answer.kind = "no_relevant_information"

\* ---------------------------------------------------------------------------
\* C23: generate_answer never raises
\* ---------------------------------------------------------------------------

\* generate_answer has ended
Generated == last.op = "generate_answer"

\* C23: generate_answer returns a string for every question and context and
\* raises nothing; when the model raised in the call, or the interface is in
\* fallback mode, the string is the templated fallback answer.
C23_GenerateAnswerNeverRaises ==
  Generated =>
    /\ last.raised = None
    /\ (last.gen = "raises" \/ l_model_type = "fallback") => last.answer.kind = "fallback"

\* the local model raised on a context of two entries and the fallback
\* answer was returned
C23_Witness ==
  /\ Generated
  /\ l_model_type = "local"
  /\ last.gen = "raises"
  /\ last.model_calls = 1
  /\ Len(last.context) = 2
  /\ last.answer.kind = "fallback"

\* ---------------------------------------------------------------------------
\* C24: llm_type selects the mode of the generator
\* ---------------------------------------------------------------------------

\* C24: a system constructed with llm_type 'fallback' is in fallback mode and
\* has not loaded the local model, and none of its answers comes from a call
\* of the model.
C24_LlmTypeSelectsMode ==
  l_llm_type = "fallback" =>
    /\ l_model_type = "fallback"
    /\ l_loads = << >>
    /\ last.op \in {"ask_question", "generate_answer"} => last.model_calls = 0

====
